---- MODULE Spec2Model ----
(***************************************************************************)
(* A model of erigon-lib/downloader/webseed.go: the WebSeeds type, its     *)
(* Discover call (the provider pass downloadWebseedTomlFromProviders and   *)
(* the download pass downloadTorrentFilesFromProviders), the locked        *)
(* accessors and the object-storage token decoding of callS3Provider.      *)
(*                                                                         *)
(* Strings the code inspects are sequences: a token is a sequence of ASCII *)
(* codes (so that base64 is computed), a file name a sequence of one-      *)
(* character strings (so that HasSuffix / HasPrefix / Split are computed). *)
(***************************************************************************)
EXTENDS Integers, Sequences, FiniteSets, TLC

\* ------------------------------------------------------------------------
\* Bounds of the model
\* ------------------------------------------------------------------------

\* The longest credential payload, in ':'-separated fields, a generated token holds.
MaxTokenParts == 4

\* ------------------------------------------------------------------------
\* strings package, over sequences
\* ------------------------------------------------------------------------

\* strings.HasSuffix
HasSuffix(s, suffix) ==
    /\ Len(suffix) <= Len(s)
    /\ SubSeq(s, Len(s) - Len(suffix) + 1, Len(s)) = suffix

\* strings.HasPrefix
HasPrefix(s, prefix) ==
    /\ Len(prefix) <= Len(s)
    /\ SubSeq(s, 1, Len(prefix)) = prefix

\* strings.Split(s, sep) for a one-element separator: always at least one part.
RECURSIVE Split(_, _)
Split(s, sep) ==
    IF \A i \in 1..Len(s) : s[i] # sep
    THEN <<s>>
    ELSE LET k == CHOOSE i \in 1..Len(s) :
                      s[i] = sep /\ \A j \in 1..(i - 1) : s[j] # sep
         IN  <<SubSeq(s, 1, k - 1)>> \o Split(SubSeq(s, k + 1, Len(s)), sep)

\* The ASCII white space strings.TrimSpace strips: \t \n \v \f \r and space.
IsSpace(c) == c \in {9, 10, 11, 12, 13, 32}

\* strings.TrimSpace
RECURSIVE TrimSpace(_)
TrimSpace(s) ==
    IF s = <<>> THEN s
    ELSE IF IsSpace(s[1]) THEN TrimSpace(Tail(s))
    ELSE IF IsSpace(s[Len(s)]) THEN TrimSpace(SubSeq(s, 1, Len(s) - 1))
    ELSE s

\* filepath.Split(name): the part after the last separator.
RECURSIVE BaseName(_)
BaseName(name) ==
    IF \A i \in 1..Len(name) : name[i] # "/"
    THEN name
    ELSE BaseName(Tail(name))

\* ------------------------------------------------------------------------
\* encoding/base64, StdEncoding (padded, '=' is 61)
\* ------------------------------------------------------------------------

\* A-Z a-z 0-9 + /
B64Alphabet ==
    [i \in 1..26 |-> 64 + i] \o [i \in 1..26 |-> 96 + i]
        \o [i \in 1..10 |-> 47 + i] \o <<43, 47>>

InB64(c) == \E i \in 1..64 : B64Alphabet[i] = c

B64Val(c) == (CHOOSE i \in 1..64 : B64Alphabet[i] = c) - 1

\* The bytes of the quanta of a padded base64 text whose length is a multiple of 4.
RECURSIVE DecodeQuanta(_)
DecodeQuanta(t) ==
    IF t = <<>> THEN [err |-> FALSE, bytes |-> <<>>]
    ELSE
      LET q    == SubSeq(t, 1, 4)
          rest == SubSeq(t, 5, Len(t))
      IN
      IF \A i \in 1..4 : InB64(q[i])
      THEN LET v == B64Val(q[1]) * 262144 + B64Val(q[2]) * 4096
                      + B64Val(q[3]) * 64 + B64Val(q[4])
               r == DecodeQuanta(rest)
           IN  IF r.err THEN r
               ELSE [err |-> FALSE,
                     bytes |-> <<v \div 65536, (v \div 256) % 256, v % 256>> \o r.bytes]
      ELSE IF rest = <<>> /\ InB64(q[1]) /\ InB64(q[2]) /\ InB64(q[3]) /\ q[4] = 61
      THEN LET v == B64Val(q[1]) * 4096 + B64Val(q[2]) * 64 + B64Val(q[3])
           IN  [err |-> FALSE, bytes |-> <<v \div 1024, (v \div 4) % 256>>]
      ELSE IF rest = <<>> /\ InB64(q[1]) /\ InB64(q[2]) /\ q[3] = 61 /\ q[4] = 61
      THEN LET v == B64Val(q[1]) * 64 + B64Val(q[2])
           IN  [err |-> FALSE, bytes |-> <<v \div 16>>]
      ELSE [err |-> TRUE, bytes |-> <<>>]

\* base64.StdEncoding.DecodeString: \r and \n are skipped, any other character
\* outside the alphabet and any missing padding is an error.
B64Decode(s) ==
    LET t == SelectSeq(s, LAMBDA c : c # 13 /\ c # 10)
    IN  IF Len(t) % 4 # 0 THEN [err |-> TRUE, bytes |-> <<>>] ELSE DecodeQuanta(t)

\* base64.StdEncoding.EncodeToString: how the tokens handed to the model are built.
RECURSIVE B64Encode(_)
B64Encode(b) ==
    IF b = <<>> THEN <<>>
    ELSE IF Len(b) = 1
    THEN <<B64Alphabet[(b[1] \div 4) + 1], B64Alphabet[(b[1] % 4) * 16 + 1], 61, 61>>
    ELSE IF Len(b) = 2
    THEN <<B64Alphabet[(b[1] \div 4) + 1],
           B64Alphabet[(b[1] % 4) * 16 + (b[2] \div 16) + 1],
           B64Alphabet[(b[2] % 16) * 4 + 1], 61>>
    ELSE <<B64Alphabet[(b[1] \div 4) + 1],
           B64Alphabet[(b[1] % 4) * 16 + (b[2] \div 16) + 1],
           B64Alphabet[(b[2] % 16) * 4 + (b[3] \div 64) + 1],
           B64Alphabet[(b[3] % 64) + 1]>> \o B64Encode(SubSeq(b, 4, Len(b)))

\* ------------------------------------------------------------------------
\* callS3Provider, lines 203-222: the token's credentials
\* ------------------------------------------------------------------------

\* "v1"
VersionV1 == <<118, 49>>

\* What lines 206-222 make of a token: the credentials, an error returned as a
\* value, or the run-time panic of an index past the end of l (line 219 reads
\* l[0], l[1] and l[2] before line 220 looks at len(l)).
ResolveToken(token) ==
    LET l == Split(token, 58)
    IN
    IF Len(l) # 2 THEN [kind |-> "format_error"]
    ELSE
      LET version       == TrimSpace(l[1])
          tokenInBase64 == TrimSpace(l[2])
      IN
      IF version # VersionV1 THEN [kind |-> "unsupported_version"]
      ELSE
        LET raw == B64Decode(tokenInBase64)
        IN
        IF raw.err THEN [kind |-> "decode_error"]
        ELSE
          LET l2 == Split(raw.bytes, 58)
          IN
          IF Len(l2) < 3 THEN [kind |-> "panic"]
          ELSE IF Len(l2) # 3 THEN [kind |-> "format_error"]
          ELSE [kind            |-> "ok",
                accountId       |-> TrimSpace(l2[1]),
                accessKeyId     |-> TrimSpace(l2[2]),
                accessKeySecret |-> TrimSpace(l2[3])]

\* ------------------------------------------------------------------------
\* Tokens: built from a shape, so that what each should resolve to is known
\* ------------------------------------------------------------------------

\* strings.Join(parts, ":")
RECURSIVE JoinColon(_)
JoinColon(parts) ==
    IF parts = <<>> THEN <<>>
    ELSE IF Len(parts) = 1 THEN parts[1]
    ELSE parts[1] \o <<58>> \o JoinColon(Tail(parts))

\* "acc", " k" and the empty field
TokenFields == {<<97, 99, 99>>, <<32, 107>>, <<>>}

\* "v1", "v2", " v1 "
TokenVersions == {VersionV1, <<118, 50>>, <<32, 118, 49, 32>>}

\* plain: version:base64   spaced: version: base64 (blanks around the payload)
\* nocolon: versionbase64  extra: version:base64:base64   badb64: version:*base64
TokenForms == {"plain", "spaced", "nocolon", "extra", "badb64"}

SeqsUpTo(S, n) == UNION {[1..k -> S] : k \in 0..n}

TokenShapes ==
    [version : TokenVersions, parts : SeqsUpTo(TokenFields, MaxTokenParts),
     form : TokenForms]

MkToken(shape) ==
    LET payload == B64Encode(JoinColon(shape.parts))
    IN  CASE shape.form = "plain"   -> shape.version \o <<58>> \o payload
          [] shape.form = "spaced"  -> shape.version \o <<58, 32>> \o payload \o <<32>>
          [] shape.form = "nocolon" -> shape.version \o payload
          [] shape.form = "extra"   -> shape.version \o <<58>> \o payload \o <<58>> \o payload
          [] shape.form = "badb64"  -> shape.version \o <<58, 42>> \o payload

\* ------------------------------------------------------------------------
\* File names, URLs and provider documents
\* ------------------------------------------------------------------------

\* ".torrent"
DotTorrent == <<".", "t", "o", "r", "r", "e", "n", "t">>

\* "a.torrent", "b.seg", "c.torrent"
NameA == <<"a">> \o DotTorrent
NameB == <<"b", ".", "s", "e", "g">>
NameC == <<"c">> \o DotTorrent

\* "commitment", and descriptor names around the family of lines 137-143:
\* "d/commitment.v.torrent" and "commitment.ef.torrent" are of it,
\* "acc.v.torrent" (another base name), "commitment.kv.torrent" (another
\* suffix) and "commitment/x.ef.torrent" (the prefix on the directory only)
\* are not.
Commitment   == <<"c", "o", "m", "m", "i", "t", "m", "e", "n", "t">>
NameDirCommV == <<"d", "/">> \o Commitment \o <<".", "v">> \o DotTorrent
NameCommEf   == Commitment \o <<".", "e", "f">> \o DotTorrent
NameAccV     == <<"a", "c", "c", ".", "v">> \o DotTorrent
NameCommKv   == Commitment \o <<".", "k", "v">> \o DotTorrent
NameCommDirX == Commitment \o <<"/", "x", ".", "e", "f">> \o DotTorrent
FamilyNames  == {NameDirCommV, NameCommEf, NameAccV, NameCommKv, NameCommDirX}

\* net/url.ParseRequestURI on the URL strings of the provider documents: a string
\* with a scheme parses into its parts, the scheme-less relative "m2/c.torrent"
\* is "invalid URI for request".
ParsedURI ==
    ("http://m1/a.torrent" :> [Scheme |-> "http", Host |-> "m1", Path |-> "/a.torrent"])
 @@ ("http://m2/a.torrent" :> [Scheme |-> "http", Host |-> "m2", Path |-> "/a.torrent"])
 @@ ("http://m3/a.torrent" :> [Scheme |-> "http", Host |-> "m3", Path |-> "/a.torrent"])
 @@ ("http://m1/c.torrent" :> [Scheme |-> "http", Host |-> "m1", Path |-> "/c.torrent"])
 @@ ("http://m1/b.seg"     :> [Scheme |-> "http", Host |-> "m1", Path |-> "/b.seg"])
 @@ ("http://m2/b.seg"     :> [Scheme |-> "http", Host |-> "m2", Path |-> "/b.seg"])
 @@ ("http://m1/d/commitment.v.torrent"
        :> [Scheme |-> "http", Host |-> "m1", Path |-> "/d/commitment.v.torrent"])
 @@ ("http://m1/commitment.ef.torrent"
        :> [Scheme |-> "http", Host |-> "m1", Path |-> "/commitment.ef.torrent"])
 @@ ("http://m1/acc.v.torrent"
        :> [Scheme |-> "http", Host |-> "m1", Path |-> "/acc.v.torrent"])
 @@ ("http://m1/commitment.kv.torrent"
        :> [Scheme |-> "http", Host |-> "m1", Path |-> "/commitment.kv.torrent"])
 @@ ("http://m1/commitment/x.ef.torrent"
        :> [Scheme |-> "http", Host |-> "m1", Path |-> "/commitment/x.ef.torrent"])

ParseRequestURI(rawURL) ==
    IF rawURL \in DOMAIN ParsedURI
    THEN [err |-> FALSE, uri |-> ParsedURI[rawURL]]
    ELSE [err |-> TRUE]

\* The providers of the model: two HTTP endpoints, the bucket a valid token
\* opens, one local file.
HttpP1 == "http://p1/webseeds.toml"
HttpP2 == "http://p2/webseeds.toml"
FileF1 == "/etc/erigon/webseeds.toml"
FileF2 == "/etc/erigon/family.toml"

\* "v1:" base64("acc:acc:acc"), "v2:" the same payload, "v1:" base64("acc:acc")
TokenGood  == MkToken([version |-> VersionV1, form |-> "plain",
                       parts |-> <<<<97, 99, 99>>, <<97, 99, 99>>, <<97, 99, 99>>>>])
TokenV2    == MkToken([version |-> <<118, 50>>, form |-> "plain",
                       parts |-> <<<<97, 99, 99>>, <<97, 99, 99>>, <<97, 99, 99>>>>])
TokenShort == MkToken([version |-> VersionV1, form |-> "plain",
                       parts |-> <<<<97, 99, 99>>, <<97, 99, 99>>>>])

\* The document (snaptype.WebSeedsFromProvider: name -> one URL string) each
\* provider serves when it answers.
DocHttp1 == (NameA :> "http://m1/a.torrent") @@ (NameB :> "http://m1/b.seg")
DocHttp2 == (NameA :> "http://m2/a.torrent") @@ (NameB :> "http://m2/b.seg")
                @@ (NameC :> "m2/c.torrent")
DocS3    == (NameA :> "http://m3/a.torrent") @@ (NameB :> "http://m1/b.seg")
DocFile1 == (NameC :> "http://m1/c.torrent") @@ (NameB :> "http://m2/b.seg")
DocFile2 ==
    (NameDirCommV :> "http://m1/d/commitment.v.torrent")
        @@ (NameCommEf   :> "http://m1/commitment.ef.torrent")
        @@ (NameAccV     :> "http://m1/acc.v.torrent")
        @@ (NameCommKv   :> "http://m1/commitment.kv.torrent")
        @@ (NameCommDirX :> "http://m1/commitment/x.ef.torrent")

DocOfHttp(u) == IF u = HttpP1 THEN DocHttp1 ELSE DocHttp2
DocOfFile(path) == IF path = FileF1 THEN DocFile1 ELSE DocFile2

\* The arguments of a Discover call: urls, s3tokens, files.
Configs ==
    { [urls |-> <<HttpP1, HttpP2>>, s3tokens |-> <<TokenGood>>, files |-> <<FileF1>>],
      [urls |-> <<HttpP2>>, s3tokens |-> <<TokenV2, TokenGood>>, files |-> <<>>],
      [urls |-> <<>>, s3tokens |-> <<TokenShort>>, files |-> <<FileF1>>] }

\* The names whose descriptor may lie in rootDir before the first call.
PreNames == {NameA}

EmptyMap == <<>>

\* ------------------------------------------------------------------------
\* State
\* ------------------------------------------------------------------------

\* Goroutines that call Discover, and the one that calls the accessors.
Callers == {"c1", "c2"}
Readers == {"r1"}

VARIABLES
    lock,                \* d.lock: "free" or the goroutine holding it
    byFileName,          \* d.byFileName
    torrentUrls,         \* d.torrentUrls
    bfnPass,             \* the discovery pass that wrote byFileName (0: unset)
    tuPass,              \* the discovery pass that wrote torrentUrls (0: unset)
    downloadTorrentFile, \* d.downloadTorrentFile
    active,              \* the callers that call Discover in this run
    pool,                \* the arguments a Discover call may be given
    disk,                \* rootDir: name -> the file at rootDir/name
    passCount,           \* Discover calls made so far
    passLimit,           \* Discover calls this run may make
    pc,                  \* where each caller is in Discover
    args,                \* the arguments of the caller's Discover
    passOf,              \* the number of the caller's discovery pass
    ctxDone,             \* whether the caller's ctx is cancelled
    idx,                 \* the loop index of the provider loops and of the merge
    list,                \* the documents collected (line 52)
    okSlots,             \* the providers that answered: <<kind, position>>
    webSeedUrls,         \* the local webSeedUrls of line 93
    newTorrentUrls,      \* the local torrentUrls of line 93
    urlsByName,          \* the snapshot of line 128
    todo,                \* the names the loop of line 131 has yet to visit
    skipped,             \* the names the loop passed over: name -> the file it found
    tasks,               \* the goroutines of e.Go: name -> its state
    rpc,                 \* "locked" while a reader is inside an accessor, else "idle"
    tokShape,            \* the shape of the token under resolution
    tokResult,           \* what callS3Provider made of it
    mirrorResp,          \* a mirror's response under callTorrentHttpProvider alone
    mirrorOut            \* what callTorrentHttpProvider made of it

sharedVars == <<lock, byFileName, torrentUrls, bfnPass, tuPass>>
envVars    == <<downloadTorrentFile, active, pool, disk, passCount, passLimit>>
passVars   == <<pc, args, passOf, ctxDone, idx, list, okSlots, webSeedUrls, newTorrentUrls>>
dlVars     == <<urlsByName, todo, skipped, tasks>>
readerVars == <<rpc>>
tokVars    == <<tokShape, tokResult, mirrorResp, mirrorOut>>
vars == <<sharedVars, envVars, passVars, dlVars, readerVars, tokVars>>

\* The Content-Length values 0..MaxSmallLength are among those a mirror
\* advertises to callTorrentHttpProvider run alone.
MaxSmallLength == 4

\* The most Discover calls of one run.
MaxPasses == 2

NoConfig == [urls |-> <<>>, s3tokens |-> <<>>, files |-> <<>>]
NoMirror == [given |-> FALSE]
NoOut    == [returned |-> FALSE]
NoShape  == [version |-> <<>>, parts |-> <<>>, form |-> "plain"]

\* The locals of a caller that is not inside Discover.
IdleLocals ==
    /\ args = [c \in Callers |-> NoConfig]
    /\ passOf = [c \in Callers |-> 0]
    /\ ctxDone = [c \in Callers |-> FALSE]
    /\ idx = [c \in Callers |-> 0]
    /\ list = [c \in Callers |-> <<>>]
    /\ okSlots = [c \in Callers |-> {}]
    /\ webSeedUrls = [c \in Callers |-> EmptyMap]
    /\ newTorrentUrls = [c \in Callers |-> EmptyMap]
    /\ urlsByName = [c \in Callers |-> EmptyMap]
    /\ todo = [c \in Callers |-> {}]
    /\ skipped = [c \in Callers |-> EmptyMap]
    /\ tasks = [c \in Callers |-> EmptyMap]

\* A WebSeeds value as constructed: no map published, the lock free; rootDir
\* holds any of the PreNames.
Init ==
    /\ lock = "free"
    /\ byFileName = EmptyMap
    /\ torrentUrls = EmptyMap
    /\ bfnPass = 0
    /\ tuPass = 0
    /\ downloadTorrentFile \in BOOLEAN
    /\ active = {"c1"}
    /\ pool = Configs
    /\ \E pre \in SUBSET PreNames :
          disk = [n \in pre |-> [data |-> <<"preexisting">>, pass |-> 0]]
    /\ passCount = 0
    /\ passLimit = MaxPasses
    /\ pc = [c \in Callers |-> "idle"]
    /\ IdleLocals
    /\ rpc = [r \in Readers |-> "idle"]
    /\ tokShape = NoShape
    /\ tokResult = [kind |-> "none"]
    /\ mirrorResp = NoMirror
    /\ mirrorOut = NoOut

\* ------------------------------------------------------------------------
\* Discover, line 45, and the provider pass, lines 50-91
\* ------------------------------------------------------------------------

\* An unrecovered panic ends the process: no goroutine takes another step.
Running == \A c \in Callers : pc[c] # "panicked"

\* The first of the loops of lines 53, 66, 80 that has a provider to visit; the
\* merge of line 94 when none has.
EnterDisk(cfg) == IF Len(cfg.files) > 0 THEN "disk" ELSE "merge"
EnterS3(cfg)   == IF Len(cfg.s3tokens) > 0 THEN "s3" ELSE EnterDisk(cfg)
EnterHttp(cfg) == IF Len(cfg.urls) > 0 THEN "http" ELSE EnterS3(cfg)

LoopLen(cfg, phase) ==
    CASE phase = "http" -> Len(cfg.urls)
      [] phase = "s3"   -> Len(cfg.s3tokens)
      [] phase = "disk" -> Len(cfg.files)

LoopAfter(cfg, phase) ==
    CASE phase = "http" -> EnterS3(cfg)
      [] phase = "s3"   -> EnterDisk(cfg)
      [] phase = "disk" -> "merge"

\* The loop of line 94 is entered only over a non-empty list.
EnterMerge(ph, collected) == IF ph = "merge" /\ collected = <<>> THEN "lock" ELSE ph

\* Discover(ctx, s3tokens, urls, files, rootDir), line 45: the call is made.
\* (c2 makes only a call that runs beside one of c1: the callers are alike.)
Discover(c) ==
    /\ Running
    /\ c \in active
    /\ pc[c] = "idle"
    /\ passCount < passLimit
    /\ c = "c2" => pc["c1"] # "idle"
    /\ \E cfg \in pool :
          /\ args' = [args EXCEPT ![c] = cfg]
          /\ pc' = [pc EXCEPT ![c] = EnterMerge(EnterHttp(cfg), <<>>)]
    /\ passCount' = passCount + 1
    /\ passOf' = [passOf EXCEPT ![c] = passCount + 1]
    /\ idx' = [idx EXCEPT ![c] = 1]
    /\ UNCHANGED <<ctxDone, list, okSlots, webSeedUrls, newTorrentUrls>>
    /\ UNCHANGED <<sharedVars, downloadTorrentFile, active, pool, disk, passLimit,
                   dlVars, readerVars, tokVars>>

\* The end of one iteration of a provider loop: `continue` after an error (lines
\* 62, 75, 85) or the append of lines 64, 77, 90, then the next provider.
ProviderVisited(c, phase, err, response) ==
    LET collected == IF err THEN list[c] ELSE Append(list[c], response)
        last      == idx[c] >= LoopLen(args[c], phase)
    IN
    /\ list' = [list EXCEPT ![c] = collected]
    /\ okSlots' = [okSlots EXCEPT ![c] = IF err THEN @ ELSE @ \cup {<<phase, idx[c]>>}]
    /\ pc' = [pc EXCEPT ![c] =
                 IF last THEN EnterMerge(LoopAfter(args[c], phase), collected) ELSE phase]
    /\ idx' = [idx EXCEPT ![c] = IF last THEN 1 ELSE @ + 1]
    /\ UNCHANGED <<args, passOf, ctxDone, webSeedUrls, newTorrentUrls>>
    /\ UNCHANGED <<sharedVars, envVars, dlVars, readerVars, tokVars>>

\* callHttpProvider, lines 186-202: the provider's document, or the error of
\* the request (always, once ctx is cancelled) or of the decoding.
CallHttpProvider(url, cancelled, answered) ==
    IF cancelled \/ ~answered
    THEN [err |-> TRUE, response |-> EmptyMap]
    ELSE [err |-> FALSE, response |-> DocOfHttp(url)]

\* Lines 53-65, one iteration. The `break` of line 56 leaves the select, not the
\* loop: the provider is called whether or not ctx is cancelled.
HttpProvider(c) ==
    /\ Running
    /\ pc[c] = "http"
    /\ \E answered \in BOOLEAN :
          LET r == CallHttpProvider(args[c].urls[idx[c]], ctxDone[c], answered)
          IN  ProviderVisited(c, "http", r.err, r.response)

\* Lines 206-222 on each token the configurations hold.
Credentials ==
    [token \in UNION {{cfg.s3tokens[i] : i \in DOMAIN cfg.s3tokens} : cfg \in Configs}
        |-> ResolveToken(token)]

\* callS3Provider, lines 203-258: the token's credentials (which may panic),
\* then the bucket's document or the error of GetObject or of the decoding.
CallS3Provider(token, cancelled, answered) ==
    LET cred == Credentials[token]
    IN  IF cred.kind = "panic" THEN [panic |-> TRUE, err |-> TRUE, response |-> EmptyMap]
        ELSE IF cred.kind # "ok" \/ cancelled \/ ~answered
        THEN [panic |-> FALSE, err |-> TRUE, response |-> EmptyMap]
        ELSE [panic |-> FALSE, err |-> FALSE, response |-> DocS3]

\* Lines 66-78, one iteration; a panic of callS3Provider unwinds Discover.
S3Provider(c) ==
    /\ Running
    /\ pc[c] = "s3"
    /\ \E answered \in BOOLEAN :
          LET r == CallS3Provider(args[c].s3tokens[idx[c]], ctxDone[c], answered)
          IN  IF r.panic
              THEN /\ pc' = [pc EXCEPT ![c] = "panicked"]
                   /\ UNCHANGED <<args, passOf, ctxDone, idx, list, okSlots,
                                  webSeedUrls, newTorrentUrls>>
                   /\ UNCHANGED <<sharedVars, envVars, dlVars, readerVars, tokVars>>
              ELSE ProviderVisited(c, "s3", r.err, r.response)

\* readWebSeedsFile, lines 290-300.
ReadWebSeedsFile(path, answered) ==
    IF answered THEN [err |-> FALSE, response |-> DocOfFile(path)]
    ELSE [err |-> TRUE, response |-> EmptyMap]

\* Lines 80-91, one iteration.
DiskProvider(c) ==
    /\ Running
    /\ pc[c] = "disk"
    /\ \E answered \in BOOLEAN :
          LET r == ReadWebSeedsFile(args[c].files[idx[c]], answered)
          IN  ProviderVisited(c, "disk", r.err, r.response)

\* ------------------------------------------------------------------------
\* The merge, lines 93-107, and the publication, lines 109-112
\* ------------------------------------------------------------------------

\* m[k] = []string{v} in place of the append of lines 103 and 106.
AppendToOverwrite(m, k, v) == (k :> <<v>>) @@ m

\* m[k] = append(m[k], v)
AppendTo(m, k, v) ==
    IF k \in DOMAIN m THEN [m EXCEPT ![k] = Append(@, v)] ELSE (k :> <<v>>) @@ m

\* The orders in which `range` may visit the keys of a map.
Orders(S) == {o \in [1..Cardinality(S) -> S] : \A i, j \in DOMAIN o : o[i] = o[j] => i = j}

\* Lines 95-106 with `break` in place of the `continue` of line 101: the rest of
\* the document is lost with the entry whose URL does not parse.
RECURSIVE MergeEntriesStopAtBadUrl(_, _, _, _)
MergeEntriesStopAtBadUrl(ws, ts, urls, order) ==
    IF order = <<>> THEN [ws |-> ws, ts |-> ts]
    ELSE
      LET name == Head(order)
          wUrl == urls[name]
      IN
      IF HasSuffix(name, <<".", "t", "o", "r", "r", "e", "n", "t">>)
      THEN IF wUrl \notin DOMAIN ParsedURI
           THEN [ws |-> ws, ts |-> ts]
           ELSE MergeEntriesStopAtBadUrl(
                    ws,
                    IF name \in DOMAIN ts
                    THEN [ts EXCEPT ![name] = Append(@, ParsedURI[wUrl])]
                    ELSE (name :> <<ParsedURI[wUrl]>>) @@ ts,
                    urls, Tail(order))
      ELSE MergeEntriesStopAtBadUrl(
               IF name \in DOMAIN ws
               THEN [ws EXCEPT ![name] = Append(@, wUrl)]
               ELSE (name :> <<wUrl>>) @@ ws,
               ts, urls, Tail(order))

\* Lines 95-106 with `break` in place of the `continue` of line 103: the
\* document is left after its first descriptor entry.
RECURSIVE MergeEntriesBreakAfterTorrent(_, _, _, _)
MergeEntriesBreakAfterTorrent(ws, ts, urls, order) ==
    IF order = <<>> THEN [ws |-> ws, ts |-> ts]
    ELSE
      LET name == Head(order)
          wUrl == urls[name]
      IN
      IF HasSuffix(name, <<".", "t", "o", "r", "r", "e", "n", "t">>)
      THEN IF wUrl \notin DOMAIN ParsedURI
           THEN MergeEntriesBreakAfterTorrent(ws, ts, urls, Tail(order))
           ELSE [ws |-> ws,
                 ts |-> IF name \in DOMAIN ts
                        THEN [ts EXCEPT ![name] = Append(@, ParsedURI[wUrl])]
                        ELSE (name :> <<ParsedURI[wUrl]>>) @@ ts]
      ELSE MergeEntriesBreakAfterTorrent(
               IF name \in DOMAIN ws
               THEN [ws EXCEPT ![name] = Append(@, wUrl)]
               ELSE (name :> <<wUrl>>) @@ ws,
               ts, urls, Tail(order))

\* Lines 95-106 over one document, its entries visited in `order`.
RECURSIVE MergeEntries(_, _, _, _)
MergeEntries(ws, ts, urls, order) ==
    IF order = <<>> THEN [ws |-> ws, ts |-> ts]
    ELSE
      LET name == Head(order)
          wUrl == urls[name]
      IN
      IF HasSuffix(name, DotTorrent)
      THEN LET parsed == ParseRequestURI(wUrl)
           IN  IF parsed.err
               THEN MergeEntries(ws, ts, urls, Tail(order))
               ELSE MergeEntries(ws, AppendTo(ts, name, parsed.uri), urls, Tail(order))
      ELSE MergeEntries(AppendTo(ws, name, wUrl), ts, urls, Tail(order))

\* Line 94, one iteration.
MergeDoc(c) ==
    /\ Running
    /\ pc[c] = "merge"
    /\ \E order \in Orders(DOMAIN list[c][idx[c]]) :
          LET m == MergeEntries(webSeedUrls[c], newTorrentUrls[c], list[c][idx[c]], order)
          IN  /\ webSeedUrls' = [webSeedUrls EXCEPT ![c] = m.ws]
              /\ newTorrentUrls' = [newTorrentUrls EXCEPT ![c] = m.ts]
    /\ pc' = [pc EXCEPT ![c] = IF idx[c] >= Len(list[c]) THEN "lock" ELSE "merge"]
    /\ idx' = [idx EXCEPT ![c] = IF idx[c] >= Len(list[c]) THEN 1 ELSE @ + 1]
    /\ UNCHANGED <<args, passOf, ctxDone, list, okSlots>>
    /\ UNCHANGED <<sharedVars, envVars, dlVars, readerVars, tokVars>>

\* Line 109 without the Lock: the two assignments of lines 111-112 unguarded.
PublishWithoutLock(c) ==
    /\ Running
    /\ pc[c] = "lock"
    /\ pc' = [pc EXCEPT ![c] = "pub1"]
    /\ UNCHANGED <<lock, byFileName, torrentUrls, bfnPass, tuPass>>
    /\ UNCHANGED <<args, passOf, ctxDone, idx, list, okSlots, webSeedUrls, newTorrentUrls>>
    /\ UNCHANGED <<envVars, dlVars, readerVars, tokVars>>

\* Line 109: d.lock.Lock()
PublishLock(c) ==
    /\ Running
    /\ pc[c] = "lock"
    /\ lock = "free"
    /\ lock' = c
    /\ pc' = [pc EXCEPT ![c] = "pub1"]
    /\ UNCHANGED <<byFileName, torrentUrls, bfnPass, tuPass>>
    /\ UNCHANGED <<args, passOf, ctxDone, idx, list, okSlots, webSeedUrls, newTorrentUrls>>
    /\ UNCHANGED <<envVars, dlVars, readerVars, tokVars>>

\* Line 111: d.byFileName = webSeedUrls
PublishByFileName(c) ==
    /\ Running
    /\ pc[c] = "pub1"
    /\ byFileName' = webSeedUrls[c]
    /\ bfnPass' = passOf[c]
    /\ pc' = [pc EXCEPT ![c] = "pub2"]
    /\ UNCHANGED <<lock, torrentUrls, tuPass>>
    /\ UNCHANGED <<args, passOf, ctxDone, idx, list, okSlots, webSeedUrls, newTorrentUrls>>
    /\ UNCHANGED <<envVars, dlVars, readerVars, tokVars>>

\* Line 112 as a merge into the map already published: the entries of earlier
\* passes stay.
PublishTorrentUrlsMerging(c) ==
    /\ Running
    /\ pc[c] = "pub2"
    /\ torrentUrls' = newTorrentUrls[c] @@ torrentUrls
    /\ tuPass' = passOf[c]
    /\ lock' = IF lock = c THEN "free" ELSE lock
    /\ pc' = [pc EXCEPT ![c] = "download"]
    /\ UNCHANGED <<byFileName, bfnPass>>
    /\ UNCHANGED <<args, passOf, ctxDone, idx, list, okSlots, webSeedUrls, newTorrentUrls>>
    /\ UNCHANGED <<envVars, dlVars, readerVars, tokVars>>

\* Line 112: d.torrentUrls = torrentUrls, and the deferred Unlock of line 110 as
\* the function returns (pc "download": Discover is at line 47).
PublishTorrentUrls(c) ==
    /\ Running
    /\ pc[c] = "pub2"
    /\ torrentUrls' = newTorrentUrls[c]
    /\ tuPass' = passOf[c]
    /\ lock' = IF lock = c THEN "free" ELSE lock
    /\ pc' = [pc EXCEPT ![c] = "download"]
    /\ UNCHANGED <<byFileName, bfnPass>>
    /\ UNCHANGED <<args, passOf, ctxDone, idx, list, okSlots, webSeedUrls, newTorrentUrls>>
    /\ UNCHANGED <<envVars, dlVars, readerVars, tokVars>>

\* ------------------------------------------------------------------------
\* The accessors, lines 168-185
\* ------------------------------------------------------------------------

\* What each accessor returns from inside its critical section.
TorrentUrls == torrentUrls
WebSeedsLen == Cardinality(DOMAIN byFileName)
ByFileName(name) ==
    IF name \in DOMAIN byFileName THEN <<byFileName[name], TRUE>> ELSE <<<<>>, FALSE>>

\* d.lock.Lock() of lines 169, 175, 181.
ReaderLock(r) ==
    /\ Running
    /\ rpc[r] = "idle"
    /\ lock = "free"
    /\ lock' = r
    /\ rpc' = [rpc EXCEPT ![r] = "locked"]
    /\ UNCHANGED <<byFileName, torrentUrls, bfnPass, tuPass>>
    /\ UNCHANGED <<envVars, passVars, dlVars, tokVars>>

\* The read and the deferred Unlock of lines 170-171, 176-177, 182-184.
ReaderUnlock(r) ==
    /\ Running
    /\ rpc[r] # "idle"
    /\ lock' = "free"
    /\ rpc' = [rpc EXCEPT ![r] = "idle"]
    /\ UNCHANGED <<byFileName, torrentUrls, bfnPass, tuPass>>
    /\ UNCHANGED <<envVars, passVars, dlVars, tokVars>>

\* ------------------------------------------------------------------------
\* The download pass, lines 116-166
\* ------------------------------------------------------------------------

\* datasize.MB
MB == 1048576

\* What a mirror may answer: no response at all (err), or a response with its
\* Content-Length and a body that is a valid descriptor or not (a body that
\* cannot be read through counts as not valid).
ContentLengths == {0, 64 * MB, 128 * MB + 1}
Responses ==
    {[err |-> TRUE, cl |-> 0, valid |-> FALSE]}
        \cup [err : {FALSE}, cl : ContentLengths, valid : BOOLEAN]

\* A []byte: <<>> is the nil slice, <<url>> the descriptor bytes url serves.
NilBytes == <<>>

\* callTorrentHttpProvider, lines 259-282: (res, err), and whether the body was read.
CallTorrentHttpProvider(url, cancelled, resp) ==
    IF cancelled \/ resp.err
    THEN [res |-> NilBytes, err |-> TRUE, answered |-> FALSE, cl |-> 0, bodyRead |-> FALSE]
    ELSE IF resp.cl = 0 \/ resp.cl > 128 * MB
    THEN [res |-> NilBytes, err |-> FALSE, answered |-> TRUE, cl |-> resp.cl,
          bodyRead |-> FALSE]
    ELSE IF ~resp.valid
    THEN [res |-> NilBytes, err |-> TRUE, answered |-> TRUE, cl |-> resp.cl,
          bodyRead |-> TRUE]
    ELSE [res |-> <<url>>, err |-> FALSE, answered |-> TRUE, cl |-> resp.cl,
          bodyRead |-> TRUE]

\* saveTorrent(tPath, res) when it succeeds: the file at rootDir/name holds res
\* (pass: the discovery pass whose goroutine wrote it, 0 for a file found there).
SaveTorrent(files, name, res, pass) ==
    (name :> [data |-> res, pass |-> pass]) @@ files

\* Line 133 without its test: every name is fetched.
FileNeverExists(name) == FALSE

\* dir.FileExist(filepath.Join(rootDir, name))
FileExist(name) == name \in DOMAIN disk

\* Lines 137-143 with the prefix looked for in the whole name, not in the part
\* filepath.Split leaves after the last separator.
IsUnsupportedByWholeName(name) ==
    /\ \/ HasSuffix(name, <<".", "v">> \o DotTorrent)
       \/ HasSuffix(name, <<".", "e", "f">> \o DotTorrent)
    /\ HasPrefix(name, Commitment)

\* Lines 137-143: the descriptor families that are not fetched.
IsUnsupported(name) ==
    /\ \/ HasSuffix(name, <<".", "v">> \o DotTorrent)
       \/ HasSuffix(name, <<".", "e", "f">> \o DotTorrent)
    /\ HasPrefix(BaseName(name), Commitment)

\* The response a goroutine holds: none before a fetch and after `continue`.
NoResponse == [answered |-> FALSE, cl |-> 0, bodyRead |-> FALSE]

\* The goroutine of line 146 as it starts: before its first mirror. (tried: the
\* mirrors fetched so far; saved: whether saveTorrent succeeded; last: the
\* response behind res.)
NewTask(tUrls) ==
    [pc |-> IF tUrls = <<>> THEN "done" ELSE "fetch", i |-> 1, urls |-> tUrls,
     res |-> NilBytes, tried |-> <<>>, saved |-> FALSE, last |-> NoResponse]

\* `continue` (lines 151, 156): the next mirror, or the end of the loop and
\* `return nil` (line 160).
NextMirror(t) ==
    IF t.i >= Len(t.urls)
    THEN [t EXCEPT !.pc = "done", !.res = NilBytes, !.last = NoResponse]
    ELSE [t EXCEPT !.pc = "fetch", !.i = @ + 1, !.res = NilBytes, !.last = NoResponse]

\* Return to the caller of Discover: the locals are gone.
Return(c) ==
    /\ pc' = [pc EXCEPT ![c] = "idle"]
    /\ args' = [args EXCEPT ![c] = NoConfig]
    /\ passOf' = [passOf EXCEPT ![c] = 0]
    /\ ctxDone' = [ctxDone EXCEPT ![c] = FALSE]
    /\ idx' = [idx EXCEPT ![c] = 0]
    /\ list' = [list EXCEPT ![c] = <<>>]
    /\ okSlots' = [okSlots EXCEPT ![c] = {}]
    /\ webSeedUrls' = [webSeedUrls EXCEPT ![c] = EmptyMap]
    /\ newTorrentUrls' = [newTorrentUrls EXCEPT ![c] = EmptyMap]
    /\ urlsByName' = [urlsByName EXCEPT ![c] = EmptyMap]
    /\ todo' = [todo EXCEPT ![c] = {}]
    /\ skipped' = [skipped EXCEPT ![c] = EmptyMap]
    /\ tasks' = [tasks EXCEPT ![c] = EmptyMap]

\* Lines 123-125 without the test of lines 120-122: the switch is ignored.
DownloadStartIgnoringSwitch(c) ==
    /\ Running
    /\ pc[c] = "download"
    /\ lock = "free"
    /\ IF Cardinality(DOMAIN torrentUrls) = 0
       THEN Return(c)
       ELSE /\ pc' = [pc EXCEPT ![c] = "snapshot"]
            /\ idx' = [idx EXCEPT ![c] = 0]
            /\ list' = [list EXCEPT ![c] = <<>>]
            /\ okSlots' = [okSlots EXCEPT ![c] = {}]
            /\ webSeedUrls' = [webSeedUrls EXCEPT ![c] = EmptyMap]
            /\ newTorrentUrls' = [newTorrentUrls EXCEPT ![c] = EmptyMap]
            /\ UNCHANGED <<args, passOf, ctxDone, dlVars>>
    /\ UNCHANGED <<sharedVars, envVars, readerVars, tokVars>>

\* Lines 120-125: the feature switch, then len(d.TorrentUrls()) == 0. (The
\* locals of the provider pass, kept for reference up to here, are dropped.)
DownloadStart(c) ==
    /\ Running
    /\ pc[c] = "download"
    /\ IF ~downloadTorrentFile
       THEN Return(c)
       ELSE /\ lock = "free"
            /\ IF Cardinality(DOMAIN TorrentUrls) = 0
               THEN Return(c)
               ELSE /\ pc' = [pc EXCEPT ![c] = "snapshot"]
                    /\ idx' = [idx EXCEPT ![c] = 0]
                    /\ list' = [list EXCEPT ![c] = <<>>]
                    /\ okSlots' = [okSlots EXCEPT ![c] = {}]
                    /\ webSeedUrls' = [webSeedUrls EXCEPT ![c] = EmptyMap]
                    /\ newTorrentUrls' = [newTorrentUrls EXCEPT ![c] = EmptyMap]
                    /\ UNCHANGED <<args, passOf, ctxDone, dlVars>>
    /\ UNCHANGED <<sharedVars, envVars, readerVars, tokVars>>

\* Lines 127-128: errgroup.WithContext and urlsByName := d.TorrentUrls().
DownloadSnapshot(c) ==
    /\ Running
    /\ pc[c] = "snapshot"
    /\ lock = "free"
    /\ urlsByName' = [urlsByName EXCEPT ![c] = TorrentUrls]
    /\ todo' = [todo EXCEPT ![c] = DOMAIN TorrentUrls]
    /\ pc' = [pc EXCEPT ![c] = IF DOMAIN TorrentUrls = {} THEN "wait" ELSE "loop"]
    /\ UNCHANGED <<skipped, tasks>>
    /\ UNCHANGED <<args, passOf, ctxDone, idx, list, okSlots, webSeedUrls, newTorrentUrls>>
    /\ UNCHANGED <<sharedVars, envVars, readerVars, tokVars>>

\* Lines 131-162 over a snapshot that is the live d.torrentUrls (a map a later
\* pass writes into instead of replacing): the mirrors are read when the name
\* is reached.
DownloadLoopOnLiveMap(c) ==
    /\ Running
    /\ pc[c] = "loop"
    /\ \E name \in todo[c] :
          /\ todo' = [todo EXCEPT ![c] = @ \ {name}]
          /\ pc' = [pc EXCEPT ![c] = IF todo[c] = {name} THEN "wait" ELSE "loop"]
          /\ IF name \in DOMAIN disk
             THEN /\ skipped' = [skipped EXCEPT ![c] = (name :> disk[name]) @@ @]
                  /\ UNCHANGED tasks
             ELSE /\ tasks' = [tasks EXCEPT ![c] =
                                  (name :> [pc |-> IF name \in DOMAIN torrentUrls
                                                   THEN "fetch" ELSE "done",
                                            i |-> 1,
                                            urls |-> IF name \in DOMAIN torrentUrls
                                                     THEN torrentUrls[name] ELSE <<>>,
                                            res |-> <<>>, tried |-> <<>>,
                                            saved |-> FALSE,
                                            last |-> [answered |-> FALSE, cl |-> 0,
                                                      bodyRead |-> FALSE]]) @@ @]
                  /\ UNCHANGED skipped
    /\ UNCHANGED urlsByName
    /\ UNCHANGED <<args, passOf, ctxDone, idx, list, okSlots, webSeedUrls, newTorrentUrls>>
    /\ UNCHANGED <<sharedVars, envVars, readerVars, tokVars>>

\* Lines 131-162, one iteration over a name of the snapshot, in any order.
DownloadLoop(c) ==
    /\ Running
    /\ pc[c] = "loop"
    /\ \E name \in todo[c] :
          /\ todo' = [todo EXCEPT ![c] = @ \ {name}]
          /\ pc' = [pc EXCEPT ![c] = IF todo[c] = {name} THEN "wait" ELSE "loop"]
          /\ IF FileExist(name)
             THEN /\ skipped' = [skipped EXCEPT ![c] = (name :> disk[name]) @@ @]
                  /\ UNCHANGED tasks
             ELSE IF IsUnsupported(name)
             THEN UNCHANGED <<skipped, tasks>>
             ELSE /\ tasks' = [tasks EXCEPT ![c] =
                                  (name :> NewTask(urlsByName[c][name])) @@ @]
                  /\ UNCHANGED skipped
    /\ UNCHANGED urlsByName
    /\ UNCHANGED <<args, passOf, ctxDone, idx, list, okSlots, webSeedUrls, newTorrentUrls>>
    /\ UNCHANGED <<sharedVars, envVars, readerVars, tokVars>>

\* Lines 147-152: the call of callTorrentHttpProvider on the current mirror, and
\* `continue` when it returns an error.
TaskFetch(c, name) ==
    /\ Running
    /\ name \in DOMAIN tasks[c]
    /\ tasks[c][name].pc = "fetch"
    /\ \E resp \in Responses :
          LET t   == tasks[c][name]
              url == t.urls[t.i]
              out == CallTorrentHttpProvider(url, ctxDone[c], resp)
              t1  == [t EXCEPT !.tried = Append(@, url), !.res = out.res,
                               !.last = [answered |-> out.answered, cl |-> out.cl,
                                         bodyRead |-> out.bodyRead]]
          IN  tasks' = [tasks EXCEPT ![c][name] =
                           IF out.err THEN NextMirror(t1) ELSE [t1 EXCEPT !.pc = "save"]]
    /\ UNCHANGED <<urlsByName, todo, skipped>>
    /\ UNCHANGED <<sharedVars, envVars, passVars, readerVars, tokVars>>

\* Lines 153-158 with `return err` in place of the `continue` of line 156: the
\* goroutine ends with an error and the errgroup cancels the ctx it shares.
TaskSaveReturningError(c, name) ==
    /\ Running
    /\ name \in DOMAIN tasks[c]
    /\ tasks[c][name].pc = "save"
    /\ \E saved \in BOOLEAN :
          IF saved
          THEN /\ disk' = SaveTorrent(disk, name, tasks[c][name].res, passOf[c])
               /\ tasks' = [tasks EXCEPT ![c][name].pc = "done",
                                         ![c][name].saved = TRUE]
               /\ UNCHANGED ctxDone
          ELSE /\ tasks' = [tasks EXCEPT ![c][name].pc = "done"]
               /\ ctxDone' = [ctxDone EXCEPT ![c] = TRUE]
               /\ UNCHANGED disk
    /\ UNCHANGED <<urlsByName, todo, skipped>>
    /\ UNCHANGED <<downloadTorrentFile, active, pool, passCount, passLimit>>
    /\ UNCHANGED <<pc, args, passOf, idx, list, okSlots, webSeedUrls, newTorrentUrls>>
    /\ UNCHANGED <<sharedVars, readerVars, tokVars>>

\* Lines 153-158: saveTorrent(tPath, res); `return nil` when it succeeds,
\* `continue` when it fails.
TaskSave(c, name) ==
    /\ Running
    /\ name \in DOMAIN tasks[c]
    /\ tasks[c][name].pc = "save"
    /\ \E saved \in BOOLEAN :
          IF saved
          THEN /\ disk' = SaveTorrent(disk, name, tasks[c][name].res, passOf[c])
               /\ tasks' = [tasks EXCEPT ![c][name].pc = "done",
                                         ![c][name].saved = TRUE]
          ELSE /\ tasks' = [tasks EXCEPT ![c][name] = NextMirror(@)]
               /\ UNCHANGED disk
    /\ UNCHANGED <<urlsByName, todo, skipped>>
    /\ UNCHANGED <<downloadTorrentFile, active, pool, passCount, passLimit>>
    /\ UNCHANGED <<sharedVars, passVars, readerVars, tokVars>>

\* Line 163 without the Wait: Discover returns with goroutines still running.
DownloadNoWait(c) ==
    /\ Running
    /\ pc[c] = "wait"
    /\ Return(c)
    /\ UNCHANGED <<sharedVars, envVars, readerVars, tokVars>>

\* Lines 163-166: e.Wait() returns once every goroutine of the group has, and
\* Discover returns.
DownloadWait(c) ==
    /\ Running
    /\ pc[c] = "wait"
    /\ \A name \in DOMAIN tasks[c] : tasks[c][name].pc = "done"
    /\ Return(c)
    /\ UNCHANGED <<sharedVars, envVars, readerVars, tokVars>>

\* The caller cancels the ctx it gave to Discover.
Cancel(c) ==
    /\ Running
    /\ pc[c] # "idle"
    /\ ~ctxDone[c]
    /\ ctxDone' = [ctxDone EXCEPT ![c] = TRUE]
    /\ UNCHANGED <<pc, args, passOf, idx, list, okSlots, webSeedUrls, newTorrentUrls>>
    /\ UNCHANGED <<sharedVars, envVars, dlVars, readerVars, tokVars>>

\* ------------------------------------------------------------------------
\* Specifications
\* ------------------------------------------------------------------------

TorrentNames == {NameA, NameC} \cup FamilyNames

Next ==
    \/ \E c \in Callers :
          \/ Discover(c)
          \/ HttpProvider(c)
          \/ S3Provider(c)
          \/ DiskProvider(c)
          \/ MergeDoc(c)
          \/ PublishLock(c)
          \/ PublishByFileName(c)
          \/ PublishTorrentUrls(c)
          \/ DownloadStart(c)
          \/ DownloadSnapshot(c)
          \/ DownloadLoop(c)
          \/ DownloadWait(c)
          \/ Cancel(c)
          \/ \E name \in TorrentNames : TaskFetch(c, name) \/ TaskSave(c, name)
    \/ \E r \in Readers : ReaderLock(r) \/ ReaderUnlock(r)

Spec == Init /\ [][Next]_vars

\* Two Discover calls side by side, one per caller, each over one HTTP
\* provider, one token and one local file.
InitConcurrent ==
    /\ lock = "free"
    /\ byFileName = EmptyMap
    /\ torrentUrls = EmptyMap
    /\ bfnPass = 0
    /\ tuPass = 0
    /\ downloadTorrentFile \in BOOLEAN
    /\ active = Callers
    /\ pool = {[urls |-> <<HttpP1>>, s3tokens |-> <<TokenV2>>, files |-> <<FileF1>>]}
    /\ disk = EmptyMap
    /\ passCount = 0
    /\ passLimit = Cardinality(Callers)
    /\ pc = [c \in Callers |-> "idle"]
    /\ IdleLocals
    /\ rpc = [r \in Readers |-> "idle"]
    /\ tokShape = NoShape
    /\ tokResult = [kind |-> "none"]
    /\ mirrorResp = NoMirror
    /\ mirrorOut = NoOut

SpecConcurrent == InitConcurrent /\ [][Next]_vars

\* One Discover call over two HTTP providers, a valid token and a local file,
\* under the scheduling the Go runtime gives: a goroutine that can take a step
\* takes it, a fetch or a persist call that was started returns, and a goroutine
\* waiting for d.lock gets it (sync.Mutex hands a starving waiter the lock).
InitFair ==
    /\ lock = "free"
    /\ byFileName = EmptyMap
    /\ torrentUrls = EmptyMap
    /\ bfnPass = 0
    /\ tuPass = 0
    /\ downloadTorrentFile = TRUE
    /\ active = {"c1"}
    /\ pool = {[urls |-> <<HttpP1, HttpP2>>, s3tokens |-> <<TokenGood>>,
                files |-> <<FileF1>>]}
    /\ \E pre \in SUBSET PreNames :
          disk = [n \in pre |-> [data |-> <<"preexisting">>, pass |-> 0]]
    /\ passCount = 0
    /\ passLimit = 1
    /\ pc = [c \in Callers |-> "idle"]
    /\ IdleLocals
    /\ rpc = [r \in Readers |-> "idle"]
    /\ tokShape = NoShape
    /\ tokResult = [kind |-> "none"]
    /\ mirrorResp = NoMirror
    /\ mirrorOut = NoOut

\* A step of a Discover call under way: of the caller's goroutine or of one of
\* the goroutines of its errgroup.
PassStep ==
    \E c \in Callers :
        \/ HttpProvider(c)
        \/ S3Provider(c)
        \/ DiskProvider(c)
        \/ MergeDoc(c)
        \/ PublishLock(c)
        \/ PublishByFileName(c)
        \/ PublishTorrentUrls(c)
        \/ DownloadStart(c)
        \/ DownloadSnapshot(c)
        \/ DownloadLoop(c)
        \/ DownloadWait(c)
        \/ \E name \in TorrentNames : TaskFetch(c, name) \/ TaskSave(c, name)

\* A reader leaves its accessor; a call under way that can take a step again
\* and again (it may wait for the lock a reader takes and releases) takes one.
Fairness ==
    /\ SF_vars(PassStep)
    /\ \A r \in Readers : WF_vars(ReaderUnlock(r))

SpecFair == InitFair /\ [][Next]_vars /\ Fairness

\* One Discover call whose local file offers the names of FamilyNames, each
\* with a mirror, none of them on disk.
InitFamily ==
    /\ lock = "free"
    /\ byFileName = EmptyMap
    /\ torrentUrls = EmptyMap
    /\ bfnPass = 0
    /\ tuPass = 0
    /\ downloadTorrentFile = TRUE
    /\ active = {"c1"}
    /\ pool = {[urls |-> <<HttpP1>>, s3tokens |-> <<TokenV2>>, files |-> <<FileF2>>]}
    /\ disk = EmptyMap
    /\ passCount = 0
    /\ passLimit = 1
    /\ pc = [c \in Callers |-> "idle"]
    /\ IdleLocals
    /\ rpc = [r \in Readers |-> "idle"]
    /\ tokShape = NoShape
    /\ tokResult = [kind |-> "none"]
    /\ mirrorResp = NoMirror
    /\ mirrorOut = NoOut

SpecFamily == InitFamily /\ [][Next]_vars

\* Token resolution alone: any token of TokenShapes, then callS3Provider's
\* lines 206-222 on it.
InitToken ==
    /\ lock = "free"
    /\ byFileName = EmptyMap
    /\ torrentUrls = EmptyMap
    /\ bfnPass = 0
    /\ tuPass = 0
    /\ downloadTorrentFile = FALSE
    /\ active = {}
    /\ pool = {}
    /\ disk = EmptyMap
    /\ passCount = 0
    /\ passLimit = 0
    /\ pc = [c \in Callers |-> "idle"]
    /\ IdleLocals
    /\ rpc = [r \in Readers |-> "idle"]
    /\ tokShape \in TokenShapes
    /\ tokResult = [kind |-> "none"]
    /\ mirrorResp = NoMirror
    /\ mirrorOut = NoOut

ResolveStep ==
    /\ tokResult.kind = "none"
    /\ tokResult' = ResolveToken(MkToken(tokShape))
    /\ UNCHANGED <<tokShape, mirrorResp, mirrorOut>>
    /\ UNCHANGED <<sharedVars, envVars, passVars, dlVars, readerVars>>

NextToken == ResolveStep

SpecToken == InitToken /\ [][NextToken]_vars

\* callTorrentHttpProvider alone: a response with any of the Content-Length
\* values of AdvertisedLengths (resp.ContentLength is an int64, -1 when the
\* length is unknown; the largest here is just under 2 GiB, and line 271 treats
\* every larger one alike), then lines 259-282 on it.
AdvertisedLengths ==
    {-1} \cup 0..MaxSmallLength
        \cup {64 * MB - 1, 64 * MB, 64 * MB + 1}
        \cup {128 * MB - 1, 128 * MB, 128 * MB + 1, 129 * MB}
        \cup {1024 * MB, 2047 * MB}

MirrorResponses ==
    [given : {TRUE}, cancelled : BOOLEAN, err : BOOLEAN, cl : AdvertisedLengths,
     valid : BOOLEAN]

InitSizeGate ==
    /\ lock = "free"
    /\ byFileName = EmptyMap
    /\ torrentUrls = EmptyMap
    /\ bfnPass = 0
    /\ tuPass = 0
    /\ downloadTorrentFile = FALSE
    /\ active = {}
    /\ pool = {}
    /\ disk = EmptyMap
    /\ passCount = 0
    /\ passLimit = 0
    /\ pc = [c \in Callers |-> "idle"]
    /\ IdleLocals
    /\ rpc = [r \in Readers |-> "idle"]
    /\ tokShape = NoShape
    /\ tokResult = [kind |-> "none"]
    /\ mirrorResp \in MirrorResponses
    /\ mirrorOut = NoOut

FetchStep ==
    /\ mirrorResp.given
    /\ ~mirrorOut.returned
    /\ LET out == CallTorrentHttpProvider(
                      ParsedURI["http://m1/a.torrent"], mirrorResp.cancelled,
                      [err |-> mirrorResp.err, cl |-> mirrorResp.cl,
                       valid |-> mirrorResp.valid])
       IN  mirrorOut' = [returned |-> TRUE, res |-> out.res, err |-> out.err,
                         bodyRead |-> out.bodyRead]
    /\ UNCHANGED <<tokShape, tokResult, mirrorResp>>
    /\ UNCHANGED <<sharedVars, envVars, passVars, dlVars, readerVars>>

NextSizeGate == FetchStep

SpecSizeGate == InitSizeGate /\ [][NextSizeGate]_vars

\* ------------------------------------------------------------------------
\* C9: credential resolution against its reference
\* ------------------------------------------------------------------------

\* The number of top-level ':'-separated parts of a token of the given form.
TopParts(form) ==
    CASE form \in {"plain", "spaced", "badb64"} -> 2
      [] form = "nocolon" -> 1
      [] form = "extra"   -> 3

\* The reference of section 4.2, read off the shape the token was built from:
\* credentials exactly for two top-level parts, version "v1" and a payload of
\* three fields; an error value, never a crash, for everything else.
RefResolve(shape) ==
    IF TopParts(shape.form) # 2 THEN [kind |-> "format_error"]
    ELSE IF TrimSpace(shape.version) # VersionV1 THEN [kind |-> "unsupported_version"]
    ELSE IF shape.form = "badb64" THEN [kind |-> "decode_error"]
    ELSE IF Len(shape.parts) # 3 THEN [kind |-> "format_error"]
    ELSE [kind            |-> "ok",
          accountId       |-> TrimSpace(shape.parts[1]),
          accessKeyId     |-> TrimSpace(shape.parts[2]),
          accessKeySecret |-> TrimSpace(shape.parts[3])]

\* C9: every token resolves to what the reference gives for it: the trimmed
\* credentials exactly for "v1" with a three-field payload, an unsupported-
\* version error for another version, a format error (a value, never a crash)
\* for a wrong number of top-level parts or of payload fields.
C9_ResolveMatchesReference ==
    tokResult.kind # "none" => tokResult = RefResolve(tokShape)

\* ------------------------------------------------------------------------
\* The merge, by reference: what each name should map to, read off the
\* providers that answered
\* ------------------------------------------------------------------------

AllNames == {NameA, NameB, NameC} \cup FamilyNames

\* The providers of a call in visit order: HTTP, then object storage, then files.
SlotSeq(cfg) ==
    [i \in 1..Len(cfg.urls) |-> <<"http", i>>]
        \o [i \in 1..Len(cfg.s3tokens) |-> <<"s3", i>>]
        \o [i \in 1..Len(cfg.files) |-> <<"disk", i>>]

DocOfSlot(cfg, slot) ==
    CASE slot[1] = "http" -> DocOfHttp(cfg.urls[slot[2]])
      [] slot[1] = "s3"   -> DocS3
      [] slot[1] = "disk" -> DocOfFile(cfg.files[slot[2]])

\* The providers among `ok` whose document has `name`, in visit order.
Offers(cfg, ok, name) ==
    SelectSeq(SlotSeq(cfg), LAMBDA sl : sl \in ok /\ name \in DOMAIN DocOfSlot(cfg, sl))

\* The URL strings they offer for it, in that order.
OfferedUrls(cfg, ok, name) ==
    LET o == Offers(cfg, ok, name)
    IN  [i \in 1..Len(o) |-> DocOfSlot(cfg, o[i])[name]]

\* Those that parse, parsed.
OfferedUris(cfg, ok, name) ==
    LET v == SelectSeq(OfferedUrls(cfg, ok, name), LAMBDA u : u \in DOMAIN ParsedURI)
    IN  [i \in 1..Len(v) |-> ParsedURI[v[i]]]

RefWebSeedMap(cfg, ok) ==
    [name \in {n \in AllNames \ TorrentNames : OfferedUrls(cfg, ok, n) # <<>>}
        |-> OfferedUrls(cfg, ok, name)]

RefTorrentMap(cfg, ok) ==
    [name \in {n \in TorrentNames : OfferedUris(cfg, ok, n) # <<>>}
        |-> OfferedUris(cfg, ok, name)]

\* A caller whose merge is complete: from the end of line 107 to line 47.
Merged(c) == pc[c] \in {"lock", "pub1", "pub2", "download"}

\* A caller that has just published: downloadWebseedTomlFromProviders returned.
Published(c) == pc[c] = "download"

\* Every task there is.
TaskIds == {<<c, name>> \in Callers \X TorrentNames : name \in DOMAIN tasks[c]}
TaskOf(id) == tasks[id[1]][id[2]]

\* ------------------------------------------------------------------------
\* C1: the provider pass never aborts
\* ------------------------------------------------------------------------

\* C1: whatever each provider does (a token of any shape included), the
\* provider pass never aborts: no Discover call ends in a panic, and when the
\* pass returns the two published maps are the ones built from exactly the
\* providers that answered, two empty maps when none did.
C1_ProviderPassNeverAborts ==
    \A c \in Callers :
        /\ pc[c] # "panicked"
        /\ Published(c) =>
              /\ byFileName = RefWebSeedMap(args[c], okSlots[c])
              /\ torrentUrls = RefTorrentMap(args[c], okSlots[c])
              /\ okSlots[c] = {} => byFileName = EmptyMap /\ torrentUrls = EmptyMap

\* ------------------------------------------------------------------------
\* C2: the published pair comes from one pass
\* ------------------------------------------------------------------------

\* C2: whenever the lock is not held (a reader may enter), byFileName and
\* torrentUrls were published by the same discovery pass, or neither was yet.
C2_PairFromOnePass == lock = "free" => bfnPass = tuPass

\* The second of two concurrent passes has published its pair over the first's.
C2_Witness ==
    /\ lock = "free"
    /\ bfnPass = 2
    /\ tuPass = 2
    /\ \E c \in Callers : passOf[c] = 1 /\ pc[c] # "idle"

\* ------------------------------------------------------------------------
\* C6, C7: the merge
\* ------------------------------------------------------------------------

\* The URLs the providers among `ok` offer for `name`, in visit order.
UrlsOffered(cfg, ok, name) ==
    SelectSeq(OfferedUrls(cfg, ok, name), LAMBDA u : ~ParseRequestURI(u).err)

Range(f) == {f[i] : i \in DOMAIN f}

\* The list a map holds for a name, empty when it has none.
ListOf(m, name) == IF name \in DOMAIN m THEN m[name] ELSE <<>>

\* C7: every entry of every collected document is classified by its name: a
\* name ending in ".torrent" goes to the torrent map only, as a parsed URL, and
\* an entry whose URL does not parse is the only one dropped; any other name
\* goes to the webseed map only, as the raw string.
C7_Classification ==
    \A c \in Callers : Merged(c) =>
        /\ \A slot \in okSlots[c] :
              LET doc == DocOfSlot(args[c], slot)
              IN  \A name \in DOMAIN doc :
                      IF HasSuffix(name, DotTorrent)
                      THEN /\ name \notin DOMAIN webSeedUrls[c]
                           /\ doc[name] \in DOMAIN ParsedURI =>
                                 ParsedURI[doc[name]] \in Range(ListOf(newTorrentUrls[c], name))
                      ELSE /\ name \notin DOMAIN newTorrentUrls[c]
                           /\ doc[name] \in Range(ListOf(webSeedUrls[c], name))
        /\ \A name \in DOMAIN newTorrentUrls[c] :
              Len(newTorrentUrls[c][name]) = Len(UrlsOffered(args[c], okSlots[c], name))
        /\ \A name \in DOMAIN webSeedUrls[c] :
              Len(webSeedUrls[c][name]) = Len(OfferedUrls(args[c], okSlots[c], name))

\* The second HTTP provider alone answered: its c.torrent entry does not parse
\* and is dropped, its a.torrent and b.seg entries are merged.
C7_Witness ==
    \E c \in Callers :
        /\ Published(c)
        /\ okSlots[c] = {<<"http", 2>>}
        /\ args[c].urls[2] = HttpP2
        /\ DOMAIN torrentUrls = {NameA}
        /\ torrentUrls[NameA] = <<ParsedURI["http://m2/a.torrent"]>>
        /\ byFileName = (NameB :> <<"http://m2/b.seg">>)

\* ------------------------------------------------------------------------
\* C3, C4, C5: the mirrors of one name
\* ------------------------------------------------------------------------

\* C3: a task attempts the mirrors of its name in list order, each at most
\* once, and stops at the first mirror whose bytes were fetched, validated and
\* persisted: the file it leaves is the descriptor of the last mirror it tried,
\* every mirror before that one having failed (for [bad, bad, good]: the
\* descriptor of the third, after three attempts).
C3_FallbackOrder ==
    \A id \in TaskIds :
        LET t == TaskOf(id)
        IN  /\ Len(t.tried) <= Len(t.urls)
            /\ t.tried = SubSeq(t.urls, 1, Len(t.tried))
            /\ t.saved =>
                  /\ t.pc = "done"
                  /\ t.tried # <<>>
                  /\ id[2] \in DOMAIN disk
                  /\ disk[id[2]].data = <<t.urls[Len(t.tried)]>>

\* C4: saveTorrent is called only with bytes a mirror of the name served and
\* validateTorrentBytes accepted, never with an absent or empty result.
C4_PersistOnlyValidated ==
    \A id \in TaskIds :
        LET t == TaskOf(id)
        IN  t.pc = "save" => t.tried # <<>> /\ t.res = <<t.urls[Len(t.tried)]>>

\* C5: a response advertising Content-Length 0 or more than 128 MiB is dropped
\* with its body unread and counts as a failed mirror (the task is not about to
\* persist anything from it, and persists nothing from it); one advertising
\* 64 MiB whose body is a valid descriptor is taken.
C5_SizeGate ==
    \A id \in TaskIds :
        LET t == TaskOf(id)
        IN  /\ t.last.answered /\ (t.last.cl = 0 \/ t.last.cl > 128 * MB) =>
                  /\ ~t.last.bodyRead
                  /\ t.pc # "save"
                  /\ ~t.saved
            /\ t.last.answered /\ t.last.cl = 64 * MB /\ t.last.bodyRead =>
                  /\ t.res = <<t.urls[Len(t.tried)]>>
                  /\ t.pc \in {"save", "done"}

\* ------------------------------------------------------------------------
\* C8: a name whose file exists
\* ------------------------------------------------------------------------

\* C8: a name whose file exists when line 133 examines it gets no task (so no
\* mirror of it is called) and its file stays as it was found; a name that has
\* a task had no file then, so any file it has now this pass wrote.
C8_SkipIfPresent ==
    \A c \in Callers :
        /\ \A name \in DOMAIN skipped[c] :
              /\ name \notin DOMAIN tasks[c]
              /\ name \in DOMAIN disk
              /\ disk[name] = skipped[c][name]
        /\ \A name \in DOMAIN tasks[c] :
              name \in DOMAIN disk => disk[name].pass = passOf[c] /\ tasks[c][name].saved

\* a.torrent was found on disk and skipped while c.torrent was fetched and saved.
C8_Witness ==
    \E c \in Callers :
        /\ pc[c] = "wait"
        /\ NameA \in DOMAIN skipped[c]
        /\ NameA \in DOMAIN urlsByName[c]
        /\ NameC \in DOMAIN tasks[c]
        /\ tasks[c][NameC].saved

\* ------------------------------------------------------------------------
\* C10: the download pass waits for its tasks, and returns
\* ------------------------------------------------------------------------

DownloadPhases == {"download", "snapshot", "loop", "wait"}

\* C10: the download pass returns only once every task it launched is done; a
\* task makes at most one attempt per mirror of its list; and the pass always
\* returns, whether mirrors answer, fail, or the context is cancelled.
C10_WaitsAndReturns ==
    /\ [][\A c \in Callers :
              pc[c] \in DownloadPhases /\ pc'[c] = "idle" =>
                  \A name \in DOMAIN tasks[c] : tasks[c][name].pc = "done"]_vars
    /\ [](\A id \in TaskIds : Len(TaskOf(id).tried) <= Len(TaskOf(id).urls))
    /\ \A c \in Callers : (pc[c] \in DownloadPhases) ~> (pc[c] = "idle")

\* A cancelled pass about to return: the three mirrors of a.torrent were each
\* tried once and failed.
C10_Witness ==
    \E c \in Callers :
        /\ pc[c] = "wait"
        /\ ctxDone[c]
        /\ NameA \in DOMAIN tasks[c]
        /\ tasks[c][NameA].pc = "done"
        /\ ~tasks[c][NameA].saved
        /\ Len(tasks[c][NameA].tried) = 3
        /\ \A name \in DOMAIN tasks[c] : tasks[c][name].pc = "done"

\* ------------------------------------------------------------------------
\* C11: each pass replaces the published pair wholesale
\* ------------------------------------------------------------------------

\* C11: when a discovery pass has published, both published maps hold exactly
\* the entries of the documents collected in that pass: nothing an earlier pass
\* published stays unless this pass collected it again.
C11_WholesaleReplace ==
    \A c \in Callers : Published(c) =>
        /\ DOMAIN byFileName = {n \in AllNames \ TorrentNames :
                                   OfferedUrls(args[c], okSlots[c], n) # <<>>}
        /\ DOMAIN torrentUrls = {n \in TorrentNames :
                                    OfferedUris(args[c], okSlots[c], n) # <<>>}
        /\ \A n \in DOMAIN byFileName :
              byFileName[n] = OfferedUrls(args[c], okSlots[c], n)
        /\ \A n \in DOMAIN torrentUrls :
              torrentUrls[n] = OfferedUris(args[c], okSlots[c], n)

\* The second pass has published without c.torrent, which the first pass had
\* published (and fetched: its file is on disk).
C11_Witness ==
    \E c \in Callers :
        /\ Published(c)
        /\ passOf[c] = 2
        /\ NameC \in DOMAIN disk
        /\ disk[NameC].pass = 1
        /\ NameC \notin DOMAIN torrentUrls
        /\ NameB \notin DOMAIN byFileName

\* ------------------------------------------------------------------------
\* C12: the download pass as a no-op
\* ------------------------------------------------------------------------

\* C12: with the feature switched off, or with an empty published torrent map,
\* the download pass does nothing: it goes from its entry straight to its
\* return with no task launched and rootDir as it was; with the switch off no
\* task ever exists and no file under rootDir is ever written.
C12_NoOpDownload ==
    /\ [][\A c \in Callers :
              /\ pc[c] = "download"
              /\ pc'[c] # "download"
              /\ ~downloadTorrentFile \/ torrentUrls = EmptyMap
              => /\ pc'[c] = "idle"
                 /\ tasks'[c] = EmptyMap
                 /\ disk' = disk]_vars
    /\ [](~downloadTorrentFile =>
              /\ \A c \in Callers : tasks[c] = EmptyMap /\ pc[c] \notin {"snapshot", "loop", "wait"}
              /\ \A n \in DOMAIN disk : disk[n].pass = 0)
    /\ [](\A c \in Callers : tasks[c] # EmptyMap => urlsByName[c] # EmptyMap)

\* Discover has returned with the switch off: a.torrent is published with
\* mirrors and has no file.
C12_Witness ==
    /\ ~downloadTorrentFile
    /\ pc["c1"] = "idle"
    /\ passCount = 1
    /\ tuPass = 1
    /\ NameA \in DOMAIN torrentUrls
    /\ NameA \notin DOMAIN disk

\* ------------------------------------------------------------------------
\* C13: cancellation and the provider loops
\* ------------------------------------------------------------------------

\* C13: once the caller's ctx is cancelled, the provider pass calls no HTTP
\* provider and no object-storage provider any more: no step of a cancelled
\* pass is an iteration of the loops of lines 53 and 66 that makes its call.
C13_NoCallAfterCancel ==
    [][\A c \in Callers : ctxDone[c] => ~(HttpProvider(c) \/ S3Provider(c))]_vars

\* ------------------------------------------------------------------------
\* C14: files that appear between the existence test and the persist step
\* ------------------------------------------------------------------------

\* C14: a task never overwrites a file: whenever a goroutine executes its
\* persist step (line 154) for a name, no file exists at rootDir/name at that
\* moment, whatever other Discover calls did since the test of line 133.
C14_NeverOverwrites ==
    [][\A c \in Callers : \A name \in TorrentNames :
           TaskSave(c, name) => name \notin DOMAIN disk]_vars

\* ------------------------------------------------------------------------
\* C15: cancellation and the download tasks
\* ------------------------------------------------------------------------

\* C15: once the shared ctx is cancelled, no task starts another mirror fetch
\* and no task executes its persist step, also not for bytes a fetch had
\* returned before the cancellation.
C15_TasksStopOnCancel ==
    [][\A c \in Callers : \A name \in TorrentNames :
           ctxDone[c] => ~(TaskFetch(c, name) \/ TaskSave(c, name))]_vars

\* ------------------------------------------------------------------------
\* C16: failures stay with their name
\* ------------------------------------------------------------------------

\* C16: a task whose mirrors fail ends without an error, so the ctx the tasks
\* share is cancelled by the caller only, and no task ends early because of a
\* sibling: a finished task has persisted its file or has tried every mirror
\* of its list.
C16_FailuresIsolated ==
    /\ [][\A c \in Callers : ~ctxDone[c] /\ ctxDone'[c] => Cancel(c)]_vars
    /\ [](\A id \in TaskIds :
              TaskOf(id).pc = "done" =>
                  TaskOf(id).saved \/ TaskOf(id).tried = TaskOf(id).urls)

\* Every mirror of a.torrent failed, the ctx is not cancelled and the task of
\* c.torrent has persisted its file.
C16_Witness ==
    \E c \in Callers :
        /\ ~ctxDone[c]
        /\ NameA \in DOMAIN tasks[c]
        /\ tasks[c][NameA].pc = "done"
        /\ ~tasks[c][NameA].saved
        /\ Len(tasks[c][NameA].tried) = 3
        /\ NameC \in DOMAIN tasks[c]
        /\ tasks[c][NameC].saved
        /\ disk[NameC].pass = passOf[c]

\* ------------------------------------------------------------------------
\* C17: the descriptor family that is not fetched
\* ------------------------------------------------------------------------

\* The names of FamilyNames that end in ".v.torrent" or ".ef.torrent" and whose
\* base name starts with "commitment", and the others.
FamilySkipped == {NameDirCommV, NameCommEf}
FamilyFetched == {NameAccV, NameCommKv, NameCommDirX}

\* The names of its snapshot the loop of line 131 has been through.
Examined(c) ==
    IF pc[c] \in {"loop", "wait"} THEN DOMAIN urlsByName[c] \ todo[c] ELSE {}

\* C17: a name of the skipped family, published with a good mirror and absent
\* on disk, gets no task and never gets a file; a name with the suffix but
\* another base name, or with the prefix but another suffix (or only on its
\* directory), gets its task like any other name.
C17_FamilySkip ==
    /\ \A name \in FamilySkipped :
          /\ name \notin DOMAIN disk
          /\ \A c \in Callers : name \notin DOMAIN tasks[c]
    /\ \A c \in Callers : \A name \in FamilyFetched \cap Examined(c) :
          name \in DOMAIN tasks[c]

\* All five names were published and examined: the three outside the family
\* were fetched and saved, the two inside have no task and no file.
C17_Witness ==
    \E c \in Callers :
        /\ pc[c] = "wait"
        /\ FamilyNames \subseteq DOMAIN urlsByName[c]
        /\ \A name \in FamilyFetched :
              /\ name \in DOMAIN tasks[c]
              /\ tasks[c][name].saved
              /\ name \in DOMAIN disk
              /\ disk[name].data = <<urlsByName[c][name][1]>>
        /\ DOMAIN tasks[c] \cap FamilySkipped = {}

\* ------------------------------------------------------------------------
\* C18: the merge as a function of what the providers answered
\* ------------------------------------------------------------------------

\* C18: two provider passes over the same provider lists in which every
\* provider gave the same document or the same failure build identical maps,
\* the order inside every list included, in whatever order each visited the
\* entries of a document; and a pass publishes the maps it built.
C18_MergeIdempotent ==
    /\ \A c, d \in Callers :
          Merged(c) /\ Merged(d) /\ args[c] = args[d] /\ okSlots[c] = okSlots[d] =>
              /\ webSeedUrls[c] = webSeedUrls[d]
              /\ newTorrentUrls[c] = newTorrentUrls[d]
    /\ \A c \in Callers : Published(c) =>
          /\ bfnPass = passOf[c] => byFileName = webSeedUrls[c]
          /\ tuPass = passOf[c] => torrentUrls = newTorrentUrls[c]

\* Both passes have published, the HTTP provider and the local file having
\* answered in both: b.seg has its two URLs in visit order in both.
C18_Witness ==
    /\ \A c \in Callers :
          /\ Published(c)
          /\ okSlots[c] = {<<"http", 1>>, <<"disk", 1>>}
          /\ webSeedUrls[c][NameB] = <<"http://m1/b.seg", "http://m2/b.seg">>
          /\ DOMAIN newTorrentUrls[c] = {NameA, NameC}
    /\ byFileName = webSeedUrls["c1"]
    /\ torrentUrls = newTorrentUrls["c2"]

\* ------------------------------------------------------------------------
\* C19: a published map is never written
\* ------------------------------------------------------------------------

\* The passes whose maps (those made on line 93 of that pass) are published.
PublishedPasses == {bfnPass, tuPass} \ {0}

\* C19: the maps are written (lines 102 and 105) only before they are
\* published, so a map that was published, or returned by TorrentUrls, stays as
\* it was: a pass that is filling its maps has published neither; the snapshot
\* of a download pass stays the same while other passes publish; and the tasks
\* are exactly over names of the snapshot, each with the snapshot's mirror list.
C19_SnapshotIsolation ==
    /\ [](\A c \in Callers :
              pc[c] \in {"http", "s3", "disk", "merge"} => passOf[c] \notin PublishedPasses)
    /\ [][\A c \in Callers : MergeDoc(c) => passOf[c] \notin PublishedPasses]_vars
    /\ [][\A c \in Callers :
              pc[c] \in {"loop", "wait"} /\ pc'[c] \in {"loop", "wait"} =>
                  urlsByName'[c] = urlsByName[c]]_vars
    /\ [](\A c \in Callers : \A name \in DOMAIN tasks[c] :
              /\ name \in DOMAIN urlsByName[c]
              /\ tasks[c][name].urls = urlsByName[c][name])
    /\ [](\A c \in Callers :
              pc[c] = "wait" =>
                  DOMAIN tasks[c] \cup DOMAIN skipped[c]
                      \cup {n \in DOMAIN urlsByName[c] : IsUnsupported(n)}
                          = DOMAIN urlsByName[c])

\* A download pass at work on its snapshot after the other Discover call has
\* published a different torrent map.
C19_Witness ==
    \E c, d \in Callers :
        /\ pc[c] = "wait"
        /\ Published(d)
        /\ tuPass = passOf[d]
        /\ passOf[c] < passOf[d]
        /\ NameA \in DOMAIN tasks[c]
        /\ tasks[c][NameA].pc = "fetch"
        /\ NameA \notin DOMAIN torrentUrls
        /\ NameC \in DOMAIN torrentUrls

\* ------------------------------------------------------------------------
\* C20: the body is read only within the size bound
\* ------------------------------------------------------------------------

\* C20: callTorrentHttpProvider reads a response's body only when the advertised
\* Content-Length L has 1 <= L <= 128 MiB; for any other value, a negative
\* (unknown) length included, the body is left unread.
C20_BoundedRead ==
    mirrorOut.returned /\ mirrorOut.bodyRead =>
        1 <= mirrorResp.cl /\ mirrorResp.cl <= 134217728

====
